---- MODULE Spec2Model ----
(***************************************************************************)
(* Unit / tenant consistency management of the apartment record-keeping    *)
(* application, in its three source variants:                              *)
(*   - tenant-portal variant: class Database + ApartmentApp and dialogs    *)
(*     (apartment_management/apartment_with_tenant_portal.py)              *)
(*   - soft-delete variant: class VistaVerdeDB (database.py)               *)
(*   - pages variant: create_database / init_db schema, pages and dialogs  *)
(*     (apartment_management/database.py, main.py, pages/, dialogs/)       *)
(* A database file is a record of tables; a table is a function from the   *)
(* ids of its rows to the rows.  No connection in the sources issues       *)
(* PRAGMA foreign_keys, so SQLite enforces no FOREIGN KEY clause.          *)
(***************************************************************************)
EXTENDS Integers, FiniteSets, Sequences, TLC

\* Bounds of the model.
MaxUnitId == 2
MaxTenantId == 2
NumUnitNumbers == 2
NumInst == 2

\* SQL NULL / Python None in a unit_id or tenant_id position (row ids start at 1).
NULL == 0

UnitNumbers == 1..NumUnitNumbers
UnitIds == 1..MaxUnitId
TenantIds == 1..MaxTenantId
Inst == 1..NumInst

VARIABLES
    portal_db,          \* apartment.db: committed tables of the tenant-portal variant
    units_tree,         \* ApartmentApp.units_tree of each application instance
    tenants_tree,       \* ApartmentApp.tenants_tree of each application instance
    portal_units_tree,  \* ApartmentApp.portal_units_tree of each application instance
    dlg,                \* the open dialog / the position of the running handler, per instance
    vista_db,           \* vista_verde.db of the soft-delete variant (VistaVerdeDB)
    pages_db,           \* vista_verde.db of the pages variant, with the schema it was created with
    last,               \* the call or handler that completed last, with its arguments
    portal_payments,    \* apartment.db: the payments table
    vista_payments,     \* vista_verde.db of VistaVerdeDB: the payments table
    pages_payments,     \* vista_verde.db of the pages variant: the payments table
    today,              \* the current date, as a day number
    program,            \* the variant a run executes, "all" when the three run side by side
    login_page          \* LoginPage: its two entries, whether the window exists, calls of on_success

portalVars == <<portal_db, units_tree, tenants_tree, portal_units_tree, dlg>>
\* No handler of units or tenants writes a payments table.  DELETE FROM tenants leaves it
\* alone as well: the ON DELETE CASCADE clauses of the payments tables are not enforced,
\* no connection issues PRAGMA foreign_keys, and the portal schema declares no cascade.
payVars == <<portal_payments, vista_payments, pages_payments, today, program>>
vars == <<portal_db, units_tree, tenants_tree, portal_units_tree, dlg, vista_db, pages_db, last, payVars, login_page>>

Call(op, arg, failed) == [op |-> op, arg |-> arg, failed |-> failed]

RemoveKey(f, k) == [x \in DOMAIN f \ {k} |-> f[x]]

NoRows == [x \in {} |-> NULL]

(***************************************************************************)
(* Tenant-portal variant: class Database                                   *)
(***************************************************************************)
p_create_tables == [units |-> NoRows, tenants |-> NoRows, seq_units |-> 0, seq_tenants |-> 0]

\* UNIQUE constraint of units.unit_number: the INSERT raises sqlite3.IntegrityError.
p_unit_number_taken(db, unit_number) ==
    \E u \in DOMAIN db.units : db.units[u].unit_number = unit_number

\* add_unit on a units table whose is_occupied defaults to 1.
p_add_unit_occupied(db, unit_number) ==
    [db EXCEPT !.units = @ @@ ((db.seq_units + 1) :> [unit_number |-> unit_number, is_occupied |-> 1]),
               !.seq_units = @ + 1]

p_add_unit(db, unit_number) ==
    [db EXCEPT !.units = @ @@ ((db.seq_units + 1) :> [unit_number |-> unit_number, is_occupied |-> 0]),
               !.seq_units = @ + 1]

p_delete_unit(db, unit_id) ==
    [db EXCEPT !.units = RemoveKey(@, unit_id)]

p_get_available_units(db) ==
    {u \in DOMAIN db.units : db.units[u].is_occupied = 0}

\* An UPDATE units SET is_occupied = ? without its WHERE id = ? clause.
p_set_unit_occupied_no_where(db, unit_id, occupied) ==
    [db EXCEPT !.units = [u \in DOMAIN @ |->
                            [@[u] EXCEPT !.is_occupied = IF occupied THEN 1 ELSE 0]]]

p_set_unit_occupied(db, unit_id, occupied) ==
    [db EXCEPT !.units = [u \in DOMAIN @ |->
                            IF u = unit_id
                            THEN [@[u] EXCEPT !.is_occupied = IF occupied THEN 1 ELSE 0]
                            ELSE @[u]]]

p_add_tenant(db, unit_id) ==
    [db EXCEPT !.tenants = @ @@ ((db.seq_tenants + 1) :> [unit_id |-> unit_id]),
               !.seq_tenants = @ + 1]

\* get_tenant + `tenant and tenant["unit_id"]`: the unit to free, NULL when there is none.
p_tenant_unit(db, tenant_id) ==
    IF tenant_id \in DOMAIN db.tenants THEN db.tenants[tenant_id].unit_id ELSE NULL

p_delete_tenant(db, tenant_id) ==
    [db EXCEPT !.tenants = RemoveKey(@, tenant_id)]

\* A remove_tenant that deletes the row without the set_unit_occupied(unit_id, False) call.
p_remove_tenant_keeps_flag(db, tenant_id) ==
    p_delete_tenant(db, tenant_id)

p_remove_tenant(db, tenant_id) ==
    LET unit_id == p_tenant_unit(db, tenant_id)
        freed == IF unit_id # NULL THEN p_set_unit_occupied(db, unit_id, FALSE) ELSE db
    IN  p_delete_tenant(freed, tenant_id)

(***************************************************************************)
(* Transactions.  A connection works on a private copy of the committed    *)
(* tables; commit() publishes the copy, rollback() discards it, and a      *)
(* connection that is dropped before commit() leaves the file as it was.   *)
(***************************************************************************)
Commit(committed, working) == working

\* An exception handler that commits what the connection has written so far.
RollbackPublishes(committed, working) == working

Rollback(committed, working) == committed

DroppedBeforeCommit(committed, working) == committed

\* UPDATE units SET is_occupied = value WHERE id = unit_id
SetOccupied(units, unit_id, value) ==
    [u \in DOMAIN units |-> IF u = unit_id THEN [units[u] EXCEPT !.is_occupied = value] ELSE units[u]]

(***************************************************************************)
(* Soft-delete variant: class VistaVerdeDB                                 *)
(***************************************************************************)
v_init_database == [units |-> NoRows, tenants |-> NoRows, seq_units |-> 0, seq_tenants |-> 0]

v_unit_number_taken(db, unit_number) ==
    \E u \in DOMAIN db.units : db.units[u].unit_number = unit_number

\* add_unit on a units table without UNIQUE on unit_number.
v_add_unit_without_unique(db, unit_number) ==
    [db EXCEPT !.units = @ @@ ((db.seq_units + 1) :> [unit_number |-> unit_number, is_occupied |-> 0]),
               !.seq_units = @ + 1]

\* add_unit: the INSERT; on sqlite3.IntegrityError nothing is committed (returns False)
v_add_unit(db, unit_number) ==
    IF v_unit_number_taken(db, unit_number) THEN db
    ELSE [db EXCEPT !.units = @ @@ ((db.seq_units + 1) :> [unit_number |-> unit_number, is_occupied |-> 0]),
                    !.seq_units = @ + 1]

\* delete_unit: DELETE FROM units WHERE id = ? (tenants keep their unit_id)
v_delete_unit(db, unit_id) ==
    [db EXCEPT !.units = RemoveKey(@, unit_id)]

\* add_tenant: INSERT INTO tenants (is_active defaults to 1)
v_insert_tenant(db, unit_id) ==
    [db EXCEPT !.tenants = @ @@ ((db.seq_tenants + 1) :> [unit_id |-> unit_id, is_active |-> 1]),
               !.seq_tenants = @ + 1]

\* add_tenant: UPDATE units SET is_occupied = 1 WHERE id = ?
v_mark_occupied(db, unit_id) ==
    [db EXCEPT !.units = SetOccupied(@, unit_id, 1)]

\* add_tenant; update_fails: the UPDATE raises and the exception leaves the method
v_add_tenant(db, unit_id, update_fails) ==
    IF update_fails
    THEN DroppedBeforeCommit(db, v_insert_tenant(db, unit_id))
    ELSE Commit(db, v_mark_occupied(v_insert_tenant(db, unit_id), unit_id))

\* end_tenancy: both UPDATEs, then commit
v_end_tenancy(db, tenant_id) ==
    LET unit_id == IF tenant_id \in DOMAIN db.tenants THEN db.tenants[tenant_id].unit_id ELSE NULL
    IN  [db EXCEPT !.tenants = [t \in DOMAIN @ |->
                                  IF t = tenant_id THEN [@[t] EXCEPT !.is_active = 0] ELSE @[t]],
                   !.units = IF unit_id = NULL THEN @ ELSE SetOccupied(@, unit_id, 0)]

(***************************************************************************)
(* Pages variant: schema of create_database (with triggers) or of the      *)
(* fallback branch of init_db (tables only), pages and dialogs             *)
(***************************************************************************)
create_database ==
    [units |-> NoRows, tenants |-> NoRows, seq_units |-> 0, seq_tenants |-> 0, triggers |-> TRUE]

init_db_fallback ==
    [units |-> NoRows, tenants |-> NoRows, seq_units |-> 0, seq_tenants |-> 0, triggers |-> FALSE]

\* update_unit_occupancy_on_tenant_insert
trigger_on_tenant_insert(db, new_unit_id) ==
    IF db.triggers /\ new_unit_id # NULL
    THEN [db EXCEPT !.units = SetOccupied(@, new_unit_id, 1)]
    ELSE db

\* update_unit_occupancy_on_tenant_delete
trigger_on_tenant_delete(db, old_unit_id) ==
    IF db.triggers /\ old_unit_id # NULL
    THEN [db EXCEPT !.units = SetOccupied(@, old_unit_id, 0)]
    ELSE db

\* update_unit_occupancy_on_tenant_update
trigger_on_tenant_update(db, old_unit_id, new_unit_id) ==
    IF db.triggers
    THEN [db EXCEPT !.units =
            LET freed == IF old_unit_id # NULL THEN SetOccupied(@, old_unit_id, 0) ELSE @
            IN  IF new_unit_id # NULL THEN SetOccupied(freed, new_unit_id, 1) ELSE freed]
    ELSE db

\* INSERT INTO tenants (..., unit_id, ...)
sql_insert_tenant(db, unit_id) ==
    trigger_on_tenant_insert(
        [db EXCEPT !.tenants = @ @@ ((db.seq_tenants + 1) :> [unit_id |-> unit_id]),
                   !.seq_tenants = @ + 1],
        unit_id)

\* DELETE FROM tenants WHERE id = ?
sql_delete_tenant(db, tenant_id) ==
    IF tenant_id \in DOMAIN db.tenants
    THEN trigger_on_tenant_delete([db EXCEPT !.tenants = RemoveKey(@, tenant_id)],
                                  db.tenants[tenant_id].unit_id)
    ELSE db

\* UPDATE tenants SET unit_id = ? WHERE id = ?
sql_update_tenant_unit(db, tenant_id, unit_id) ==
    IF tenant_id \in DOMAIN db.tenants
    THEN trigger_on_tenant_update([db EXCEPT !.tenants[tenant_id].unit_id = unit_id],
                                  db.tenants[tenant_id].unit_id, unit_id)
    ELSE db

g_unit_number_taken(db, unit_number) ==
    \E u \in DOMAIN db.units : db.units[u].unit_number = unit_number

\* AddUnitDialog.save: the INSERT and commit, or the IntegrityError message
AddUnitDialog_save(db, unit_number) ==
    IF g_unit_number_taken(db, unit_number) THEN db
    ELSE [db EXCEPT !.units = @ @@ ((db.seq_units + 1) :> [unit_number |-> unit_number, is_occupied |-> 0]),
                    !.seq_units = @ + 1]

\* AddTenantDialog.__init__: the units offered in the combobox
AddTenantDialog_units(db) == {u \in DOMAIN db.units : db.units[u].is_occupied = 0}

\* AddTenantDialog.save; update_fails: the UPDATE raises inside the try block
AddTenantDialog_save(db, unit_id, update_fails) ==
    LET inserted == sql_insert_tenant(db, unit_id)
    IN  IF update_fails
        THEN Rollback(db, inserted)
        ELSE Commit(db, [inserted EXCEPT !.units = SetOccupied(@, unit_id, 1)])

\* TenantsPage.delete_tenant
delete_tenant(db, tenant_id) == sql_delete_tenant(db, tenant_id)

\* UnitsPage.delete_unit: DELETE FROM units WHERE id = ? (no occupancy check)
delete_unit(db, unit_id) == [db EXCEPT !.units = RemoveKey(@, unit_id)]

(***************************************************************************)
(* Tenant-portal variant: ApartmentApp and its dialogs                     *)
(***************************************************************************)
refresh_units(db) ==
    [u \in DOMAIN db.units |-> IF db.units[u].is_occupied # 0 THEN "Yes" ELSE "No"]

refresh_tenants(db) == DOMAIN db.tenants

refresh_tenant_portal_units(db) == p_get_available_units(db)

populate_units(db) == {u \in DOMAIN db.units : db.units[u].is_occupied = 0}

Idle == [kind |-> "idle", units |-> {}, unit |-> NULL, tenant |-> NULL]

\* The three refreshes every caller of a tenant dialog or removal runs afterwards.
RefreshAll(i) ==
    /\ units_tree' = [units_tree EXCEPT ![i] = refresh_units(portal_db')]
    /\ tenants_tree' = [tenants_tree EXCEPT ![i] = refresh_tenants(portal_db')]
    /\ portal_units_tree' = [portal_units_tree EXCEPT ![i] = refresh_tenant_portal_units(portal_db')]

RefreshUnits(i) ==
    /\ units_tree' = [units_tree EXCEPT ![i] = refresh_units(portal_db')]
    /\ portal_units_tree' = [portal_units_tree EXCEPT ![i] = refresh_tenant_portal_units(portal_db')]
    /\ UNCHANGED tenants_tree

\* RegisterTenantDialog.on_register, from the insert on.
on_register(db, unit_id) ==
    p_set_unit_occupied(p_add_tenant(db, unit_id), unit_id, TRUE)

\* TenantPortalRegisterDialog.on_submit, from the availability check on.
on_submit(db, unit_id) ==
    IF unit_id \notin DOMAIN db.units THEN db
    ELSE IF db.units[unit_id].is_occupied # 0 THEN db
    ELSE p_set_unit_occupied(p_add_tenant(db, unit_id), unit_id, TRUE)

\* delete_selected_unit without the check of the 'Occupied' column.
delete_selected_unit_unchecked(db, tree, unit_id) ==
    p_delete_unit(db, unit_id)

\* ApartmentApp.delete_selected_unit reads the occupancy shown in units_tree.
delete_selected_unit(db, tree, unit_id) ==
    IF tree[unit_id] = "Yes" THEN db ELSE p_delete_unit(db, unit_id)

\* open_add_unit_dialog + AddUnitDialog.on_add
AddUnit(i, unit_number) ==
    /\ dlg[i].kind = "idle"
    /\ portal_db.seq_units < MaxUnitId
    /\ portal_db' = IF p_unit_number_taken(portal_db, unit_number)
                    THEN portal_db
                    ELSE p_add_unit(portal_db, unit_number)
    /\ RefreshUnits(i)
    /\ last' = Call("on_add", unit_number, FALSE)
    /\ UNCHANGED <<dlg, vista_db, pages_db, payVars, login_page>>

\* open_register_tenant_dialog + RegisterTenantDialog (modal) + on_register
RegisterTenant(i, unit_id) ==
    /\ dlg[i].kind = "idle"
    /\ portal_db.seq_tenants < MaxTenantId
    /\ unit_id \in populate_units(portal_db)
    /\ portal_db' = on_register(portal_db, unit_id)
    /\ RefreshAll(i)
    /\ last' = Call("on_register", unit_id, FALSE)
    /\ UNCHANGED <<dlg, vista_db, pages_db, payVars, login_page>>

\* open_tenant_portal_register_popup + TenantPortalRegisterDialog (modal) + on_submit
PortalRegister(i, unit_id) ==
    /\ dlg[i].kind = "idle"
    /\ portal_db.seq_tenants < MaxTenantId
    /\ unit_id \in portal_units_tree[i]
    /\ portal_db' = on_submit(portal_db, unit_id)
    /\ RefreshAll(i)
    /\ last' = Call("on_submit", unit_id, FALSE)
    /\ UNCHANGED <<dlg, vista_db, pages_db, payVars, login_page>>

\* ApartmentApp.remove_selected_tenant
RemoveSelectedTenant(i, tenant_id) ==
    /\ dlg[i].kind = "idle"
    /\ tenant_id \in tenants_tree[i]
    /\ portal_db' = p_remove_tenant(portal_db, tenant_id)
    /\ RefreshAll(i)
    /\ last' = Call("remove_selected_tenant", tenant_id, FALSE)
    /\ UNCHANGED <<dlg, vista_db, pages_db, payVars, login_page>>

\* ApartmentApp.delete_selected_unit
DeleteSelectedUnit(i, unit_id) ==
    /\ dlg[i].kind = "idle"
    /\ unit_id \in DOMAIN units_tree[i]
    /\ portal_db' = delete_selected_unit(portal_db, units_tree[i], unit_id)
    /\ RefreshUnits(i)
    /\ last' = Call("delete_selected_unit", unit_id, FALSE)
    /\ UNCHANGED <<dlg, vista_db, pages_db, payVars, login_page>>

(***************************************************************************)
(* Pages variant: LoginPage.  Texts are sequences of characters.           *)
(***************************************************************************)
admin == <<"a", "d", "m", "i", "n">>
Admin123 == <<"A", "d", "m", "i", "n", "1", "2", "3">>

\* Characters that str.strip() removes (of those that occur in the entries).
Whitespace == {" ", "\t"}

\* str.strip(): the text without its leading and trailing whitespace
RECURSIVE lstrip(_)
lstrip(text) ==
    IF text # << >> /\ Head(text) \in Whitespace THEN lstrip(Tail(text)) ELSE text

RECURSIVE rstrip(_)
rstrip(text) ==
    IF text # << >> /\ text[Len(text)] \in Whitespace
    THEN rstrip(SubSeq(text, 1, Len(text) - 1))
    ELSE text

strip(text) == rstrip(lstrip(text))

\* LoginPage.__init__: both entries empty, on_success not yet called
LoginPage_init ==
    [open |-> TRUE, username_entry |-> << >>, password_entry |-> << >>, on_success |-> 0]

\* A login that compares the entries as they were typed.
login_unstripped(page) ==
    IF page.username_entry = admin /\ page.password_entry = Admin123
    THEN [page EXCEPT !.open = FALSE, !.on_success = @ + 1]
    ELSE [page EXCEPT !.password_entry = << >>]

\* LoginPage.login: destroy and on_success, or the error box and the password cleared
login(page) ==
    IF strip(page.username_entry) = admin /\ strip(page.password_entry) = Admin123
    THEN [page EXCEPT !.open = FALSE, !.on_success = @ + 1]
    ELSE [page EXCEPT !.password_entry = << >>]

EmptyPayments == [rows |-> NoRows, seq |-> 0]

\* No payment has been recorded; the three variants run side by side, each on its own file.
PaymentsInit ==
    /\ portal_payments = EmptyPayments
    /\ vista_payments = EmptyPayments
    /\ pages_payments = EmptyPayments
    /\ today = 1
    /\ login_page = LoginPage_init
    /\ program = "all"

PortalInit ==
    /\ portal_db = p_create_tables
    /\ units_tree = [i \in Inst |-> refresh_units(p_create_tables)]
    /\ tenants_tree = [i \in Inst |-> refresh_tenants(p_create_tables)]
    /\ portal_units_tree = [i \in Inst |-> refresh_tenant_portal_units(p_create_tables)]
    /\ dlg = [i \in Inst |-> Idle]

NoCall == Call("none", NULL, FALSE)

Init ==
    /\ PortalInit
    /\ vista_db = v_init_database
    /\ pages_db = create_database
    /\ last = NoCall
    /\ PaymentsInit

\* One application instance on apartment.db: every handler runs to completion.
PortalNext ==
    \/ \E n \in UnitNumbers : AddUnit(1, n)
    \/ \E u \in UnitIds : RegisterTenant(1, u)
    \/ \E u \in UnitIds : PortalRegister(1, u)
    \/ \E t \in TenantIds : RemoveSelectedTenant(1, t)
    \/ \E u \in UnitIds : DeleteSelectedUnit(1, u)

SpecPortal == Init /\ [][PortalNext]_vars

(***************************************************************************)
(* Several application instances on the same apartment.db.  Every Database *)
(* method commits on its own, so another instance's calls can fall between *)
(* the calls of one handler; a handler is one step per Database call.      *)
(***************************************************************************)
\* Tenant inserts already decided on by a handler that is past its checks.
PendingInserts == Cardinality({j \in Inst : dlg[j].kind = "on_submit_insert"})

CanInsertTenant == portal_db.seq_tenants + PendingInserts < MaxTenantId

\* open_register_tenant_dialog: RegisterTenantDialog.__init__ + populate_units
OpenRegisterDialog(i) ==
    /\ dlg[i].kind = "idle"
    /\ dlg' = [dlg EXCEPT ![i] = [Idle EXCEPT !.kind = "RegisterTenantDialog",
                                              !.units = populate_units(portal_db)]]
    /\ UNCHANGED <<portal_db, units_tree, tenants_tree, portal_units_tree, vista_db, pages_db, payVars, login_page, last>>

\* on_register up to and including self.db.add_tenant(...)
on_register_insert(i, unit_id) ==
    /\ dlg[i].kind = "RegisterTenantDialog"
    /\ unit_id \in dlg[i].units
    /\ CanInsertTenant
    /\ portal_db' = p_add_tenant(portal_db, unit_id)
    /\ dlg' = [dlg EXCEPT ![i] = [Idle EXCEPT !.kind = "on_register", !.unit = unit_id,
                                              !.tenant = portal_db'.seq_tenants]]
    /\ UNCHANGED <<units_tree, tenants_tree, portal_units_tree, vista_db, pages_db, payVars, login_page, last>>

\* on_register: self.db.set_unit_occupied(unit_id, True), destroy, the caller's refreshes
on_register_occupy(i) ==
    /\ dlg[i].kind = "on_register"
    /\ portal_db' = p_set_unit_occupied(portal_db, dlg[i].unit, TRUE)
    /\ dlg' = [dlg EXCEPT ![i] = Idle]
    /\ RefreshAll(i)
    /\ UNCHANGED <<vista_db, pages_db, payVars, login_page, last>>

\* open_tenant_portal_register_popup: the unit selected in portal_units_tree
OpenPortalPopup(i, unit_id) ==
    /\ dlg[i].kind = "idle"
    /\ unit_id \in portal_units_tree[i]
    /\ dlg' = [dlg EXCEPT ![i] = [Idle EXCEPT !.kind = "TenantPortalRegisterDialog",
                                              !.unit = unit_id]]
    /\ UNCHANGED <<portal_db, units_tree, tenants_tree, portal_units_tree, vista_db, pages_db, payVars, login_page, last>>

\* on_submit: unit = self.db.get_unit(self.unit_id) and the two checks on it
on_submit_check(i) ==
    /\ dlg[i].kind = "TenantPortalRegisterDialog"
    /\ CanInsertTenant
    /\ UNCHANGED <<portal_db, vista_db, pages_db, payVars, login_page, last>>
    /\ IF dlg[i].unit \notin DOMAIN portal_db.units
       THEN UNCHANGED <<dlg, units_tree, tenants_tree, portal_units_tree>>
       ELSE IF portal_db.units[dlg[i].unit].is_occupied # 0
       THEN dlg' = [dlg EXCEPT ![i] = Idle] /\ RefreshAll(i)
       ELSE /\ dlg' = [dlg EXCEPT ![i].kind = "on_submit_insert"]
            /\ UNCHANGED <<units_tree, tenants_tree, portal_units_tree>>

\* on_submit: self.db.add_tenant(...)
on_submit_insert(i) ==
    /\ dlg[i].kind = "on_submit_insert"
    /\ portal_db' = p_add_tenant(portal_db, dlg[i].unit)
    /\ dlg' = [dlg EXCEPT ![i].kind = "on_submit_occupy", ![i].tenant = portal_db'.seq_tenants]
    /\ UNCHANGED <<units_tree, tenants_tree, portal_units_tree, vista_db, pages_db, payVars, login_page, last>>

\* on_submit: self.db.set_unit_occupied(self.unit_id, True), destroy, the caller's refreshes
on_submit_occupy(i) ==
    /\ dlg[i].kind = "on_submit_occupy"
    /\ portal_db' = p_set_unit_occupied(portal_db, dlg[i].unit, TRUE)
    /\ dlg' = [dlg EXCEPT ![i] = Idle]
    /\ RefreshAll(i)
    /\ UNCHANGED <<vista_db, pages_db, payVars, login_page, last>>

\* Cancel button of either tenant dialog, then the caller's refreshes
CancelDialog(i) ==
    /\ dlg[i].kind \in {"RegisterTenantDialog", "TenantPortalRegisterDialog"}
    /\ UNCHANGED portal_db
    /\ dlg' = [dlg EXCEPT ![i] = Idle]
    /\ RefreshAll(i)
    /\ UNCHANGED <<vista_db, pages_db, payVars, login_page, last>>

\* remove_selected_tenant -> remove_tenant: tenant = self.get_tenant(tenant_id)
remove_tenant_get(i, tenant_id) ==
    /\ dlg[i].kind = "idle"
    /\ tenant_id \in tenants_tree[i]
    /\ dlg' = [dlg EXCEPT ![i] =
                 [Idle EXCEPT !.kind = IF p_tenant_unit(portal_db, tenant_id) # NULL
                                       THEN "remove_tenant_free" ELSE "remove_tenant_delete",
                              !.unit = p_tenant_unit(portal_db, tenant_id),
                              !.tenant = tenant_id]]
    /\ UNCHANGED <<portal_db, units_tree, tenants_tree, portal_units_tree, vista_db, pages_db, payVars, login_page, last>>

\* remove_tenant: self.set_unit_occupied(tenant["unit_id"], False)
remove_tenant_free(i) ==
    /\ dlg[i].kind = "remove_tenant_free"
    /\ portal_db' = p_set_unit_occupied(portal_db, dlg[i].unit, FALSE)
    /\ dlg' = [dlg EXCEPT ![i].kind = "remove_tenant_delete"]
    /\ UNCHANGED <<units_tree, tenants_tree, portal_units_tree, vista_db, pages_db, payVars, login_page, last>>

\* remove_tenant: DELETE FROM tenants, then the caller's refreshes
remove_tenant_delete(i) ==
    /\ dlg[i].kind = "remove_tenant_delete"
    /\ portal_db' = p_delete_tenant(portal_db, dlg[i].tenant)
    /\ dlg' = [dlg EXCEPT ![i] = Idle]
    /\ RefreshAll(i)
    /\ UNCHANGED <<vista_db, pages_db, payVars, login_page, last>>

\* "Refresh List" button of the Tenant Portal tab
RefreshPortalList(i) ==
    /\ dlg[i].kind = "idle"
    /\ portal_units_tree' = [portal_units_tree EXCEPT ![i] = refresh_tenant_portal_units(portal_db)]
    /\ UNCHANGED <<portal_db, units_tree, tenants_tree, dlg, vista_db, pages_db, payVars, login_page, last>>

\* The instances are started on a database file that already holds the units.
PortalConcInit ==
    /\ portal_db \in {p_add_unit(p_create_tables, 1), p_add_unit(p_add_unit(p_create_tables, 1), 2)}
    /\ units_tree = [i \in Inst |-> refresh_units(portal_db)]
    /\ tenants_tree = [i \in Inst |-> refresh_tenants(portal_db)]
    /\ portal_units_tree = [i \in Inst |-> refresh_tenant_portal_units(portal_db)]
    /\ dlg = [i \in Inst |-> Idle]
    /\ vista_db = v_init_database
    /\ pages_db = create_database
    /\ last = NoCall
    /\ PaymentsInit

PortalConcNext ==
    \/ \E i \in Inst : OpenRegisterDialog(i)
    \/ \E i \in Inst, u \in UnitIds : on_register_insert(i, u)
    \/ \E i \in Inst : on_register_occupy(i)
    \/ \E i \in Inst, u \in UnitIds : OpenPortalPopup(i, u)
    \/ \E i \in Inst : on_submit_check(i)
    \/ \E i \in Inst : on_submit_insert(i)
    \/ \E i \in Inst : on_submit_occupy(i)
    \/ \E i \in Inst : CancelDialog(i)
    \/ \E i \in Inst, t \in TenantIds : remove_tenant_get(i, t)
    \/ \E i \in Inst : remove_tenant_free(i)
    \/ \E i \in Inst : remove_tenant_delete(i)
    \/ \E i \in Inst : RefreshPortalList(i)

SpecPortalConc == PortalConcInit /\ [][PortalConcNext]_vars

\* Only portal registrations (and the units they are for), from several instances.
PortalRaceNext ==
    \/ \E i \in Inst, n \in UnitNumbers : AddUnit(i, n)
    \/ \E i \in Inst, u \in UnitIds : OpenPortalPopup(i, u)
    \/ \E i \in Inst : on_submit_check(i)
    \/ \E i \in Inst : on_submit_insert(i)
    \/ \E i \in Inst : on_submit_occupy(i)
    \/ \E i \in Inst : CancelDialog(i)
    \/ \E i \in Inst : RefreshPortalList(i)

SpecPortalRace == Init /\ [][PortalRaceNext]_vars

(***************************************************************************)
(* Tenant-portal variant: the methods of class Database called directly,   *)
(* with arbitrary arguments, on one connection.                            *)
(***************************************************************************)
UnitArgs == 0..MaxUnitId    \* a unit id, an id of no unit, or NULL

PortalUiUnchanged == UNCHANGED <<units_tree, tenants_tree, portal_units_tree, dlg, vista_db, pages_db, payVars, login_page>>

Db_add_unit(unit_number) ==
    /\ portal_db.seq_units < MaxUnitId
    /\ portal_db' = IF p_unit_number_taken(portal_db, unit_number)
                    THEN portal_db
                    ELSE p_add_unit(portal_db, unit_number)
    /\ last' = Call("add_unit", unit_number, p_unit_number_taken(portal_db, unit_number))
    /\ PortalUiUnchanged

Db_delete_unit(unit_id) ==
    /\ portal_db' = p_delete_unit(portal_db, unit_id)
    /\ last' = Call("delete_unit", unit_id, FALSE)
    /\ PortalUiUnchanged

Db_set_unit_occupied(unit_id, occupied) ==
    /\ portal_db' = p_set_unit_occupied(portal_db, unit_id, occupied)
    /\ last' = Call(IF occupied THEN "set_unit_occupied(True)" ELSE "set_unit_occupied(False)",
                    unit_id, FALSE)
    /\ PortalUiUnchanged

Db_add_tenant(unit_id) ==
    /\ portal_db.seq_tenants < MaxTenantId
    /\ portal_db' = p_add_tenant(portal_db, unit_id)
    /\ last' = Call("add_tenant", unit_id, FALSE)
    /\ PortalUiUnchanged

Db_remove_tenant(tenant_id) ==
    /\ portal_db' = p_remove_tenant(portal_db, tenant_id)
    /\ last' = Call("remove_tenant", tenant_id, FALSE)
    /\ PortalUiUnchanged

PortalApiNext ==
    \/ \E n \in UnitNumbers : Db_add_unit(n)
    \/ \E u \in UnitIds : Db_delete_unit(u)
    \/ \E u \in UnitIds, occupied \in BOOLEAN : Db_set_unit_occupied(u, occupied)
    \/ \E u \in UnitArgs : Db_add_tenant(u)
    \/ \E t \in TenantIds : Db_remove_tenant(t)

SpecPortalApi == Init /\ [][PortalApiNext]_vars

(***************************************************************************)
(* Soft-delete variant: the methods of VistaVerdeDB, arbitrary arguments.  *)
(***************************************************************************)
VistaOthersUnchanged == UNCHANGED <<portalVars, pages_db, payVars, login_page>>

V_add_unit(unit_number) ==
    /\ vista_db.seq_units < MaxUnitId
    /\ vista_db' = v_add_unit(vista_db, unit_number)
    /\ last' = Call("VistaVerdeDB.add_unit", unit_number, v_unit_number_taken(vista_db, unit_number))
    /\ VistaOthersUnchanged

V_delete_unit(unit_id) ==
    /\ vista_db' = v_delete_unit(vista_db, unit_id)
    /\ last' = Call("VistaVerdeDB.delete_unit", unit_id, FALSE)
    /\ VistaOthersUnchanged

V_add_tenant(unit_id) ==
    /\ vista_db.seq_tenants < MaxTenantId
    /\ vista_db' = v_add_tenant(vista_db, unit_id, FALSE)
    /\ last' = Call("VistaVerdeDB.add_tenant", unit_id, FALSE)
    /\ VistaOthersUnchanged

\* add_tenant with a simulated failure of its UPDATE
V_add_tenant_update_fails(unit_id) ==
    /\ vista_db.seq_tenants < MaxTenantId
    /\ vista_db' = v_add_tenant(vista_db, unit_id, TRUE)
    /\ last' = Call("VistaVerdeDB.add_tenant", unit_id, TRUE)
    /\ VistaOthersUnchanged

V_end_tenancy(tenant_id) ==
    /\ vista_db' = v_end_tenancy(vista_db, tenant_id)
    /\ last' = Call("VistaVerdeDB.end_tenancy", tenant_id, FALSE)
    /\ VistaOthersUnchanged

VistaNext ==
    \/ \E n \in UnitNumbers : V_add_unit(n)
    \/ \E u \in UnitIds : V_delete_unit(u)
    \/ \E u \in UnitArgs : V_add_tenant(u)
    \/ \E t \in TenantIds : V_end_tenancy(t)

SpecVista == Init /\ [][VistaNext]_vars

(***************************************************************************)
(* Pages variant: one application instance.  Both dialogs are modal, and   *)
(* each page reloads its tree in show(), in the dialog's callback and at   *)
(* the end of its delete handler, so a tree lists the rows of its table.   *)
(***************************************************************************)
PagesOthersUnchanged == UNCHANGED <<portalVars, vista_db, payVars, login_page>>

\* UnitsPage.add_unit + AddUnitDialog.save
G_AddUnit(unit_number) ==
    /\ pages_db.seq_units < MaxUnitId
    /\ pages_db' = AddUnitDialog_save(pages_db, unit_number)
    /\ last' = Call("AddUnitDialog.save", unit_number, g_unit_number_taken(pages_db, unit_number))
    /\ PagesOthersUnchanged

\* TenantsPage.add_tenant + AddTenantDialog.__init__ + save
G_AddTenant(unit_id) ==
    /\ pages_db.seq_tenants < MaxTenantId
    /\ unit_id \in AddTenantDialog_units(pages_db)
    /\ pages_db' = AddTenantDialog_save(pages_db, unit_id, FALSE)
    /\ last' = Call("AddTenantDialog.save", unit_id, FALSE)
    /\ PagesOthersUnchanged

\* AddTenantDialog.save with a simulated failure of its UPDATE
G_AddTenant_update_fails(unit_id) ==
    /\ pages_db.seq_tenants < MaxTenantId
    /\ unit_id \in AddTenantDialog_units(pages_db)
    /\ pages_db' = AddTenantDialog_save(pages_db, unit_id, TRUE)
    /\ last' = Call("AddTenantDialog.save", unit_id, TRUE)
    /\ PagesOthersUnchanged

\* TenantsPage.delete_tenant
G_DeleteTenant(tenant_id) ==
    /\ tenant_id \in DOMAIN pages_db.tenants
    /\ pages_db' = delete_tenant(pages_db, tenant_id)
    /\ last' = Call("TenantsPage.delete_tenant", tenant_id, FALSE)
    /\ PagesOthersUnchanged

\* UnitsPage.delete_unit
G_DeleteUnit(unit_id) ==
    /\ unit_id \in DOMAIN pages_db.units
    /\ pages_db' = delete_unit(pages_db, unit_id)
    /\ last' = Call("UnitsPage.delete_unit", unit_id, FALSE)
    /\ PagesOthersUnchanged

\* The application is started on a file made by create_database or by init_db's fallback.
PagesInit ==
    /\ PortalInit
    /\ vista_db = v_init_database
    /\ pages_db \in {create_database, init_db_fallback}
    /\ last = NoCall
    /\ PaymentsInit

PagesNext ==
    \/ \E n \in UnitNumbers : G_AddUnit(n)
    \/ \E u \in UnitIds : G_AddTenant(u)
    \/ \E t \in TenantIds : G_DeleteTenant(t)
    \/ \E u \in UnitIds : G_DeleteUnit(u)

SpecPages == PagesInit /\ [][PagesNext]_vars

\* Statements on the tenants table of a file made by create_database.
Sql_InsertTenant(unit_id) ==
    /\ pages_db.seq_tenants < MaxTenantId
    /\ pages_db' = sql_insert_tenant(pages_db, unit_id)
    /\ last' = Call("INSERT INTO tenants", unit_id, FALSE)
    /\ PagesOthersUnchanged

Sql_DeleteTenant(tenant_id) ==
    /\ pages_db' = sql_delete_tenant(pages_db, tenant_id)
    /\ last' = Call("DELETE FROM tenants", tenant_id, FALSE)
    /\ PagesOthersUnchanged

Sql_UpdateTenantUnit(tenant_id, unit_id) ==
    /\ pages_db' = sql_update_tenant_unit(pages_db, tenant_id, unit_id)
    /\ last' = Call("UPDATE tenants SET unit_id", tenant_id, FALSE)
    /\ PagesOthersUnchanged

PagesSqlNext ==
    \/ \E n \in UnitNumbers : G_AddUnit(n)
    \/ \E u \in UnitIds : G_AddTenant(u)
    \/ \E t \in TenantIds : G_DeleteTenant(t)
    \/ \E u \in UnitIds : G_DeleteUnit(u)
    \/ \E u \in UnitArgs : Sql_InsertTenant(u)
    \/ \E t \in TenantIds : Sql_DeleteTenant(t)
    \/ \E t \in TenantIds, u \in UnitArgs : Sql_UpdateTenantUnit(t, u)

SpecPagesSql == Init /\ [][PagesSqlNext]_vars

\* Tenant assignment in the pages and soft-delete variants, with simulated failures.
RollbackNext ==
    \/ \E n \in UnitNumbers : G_AddUnit(n)
    \/ \E u \in UnitIds : G_AddTenant(u)
    \/ \E u \in UnitIds : G_AddTenant_update_fails(u)
    \/ \E n \in UnitNumbers : V_add_unit(n)
    \/ \E u \in UnitArgs : V_add_tenant(u)
    \/ \E u \in UnitArgs : V_add_tenant_update_fails(u)

SpecRollback == PagesInit /\ [][RollbackNext]_vars

(***************************************************************************)
(* Payments.  A payments table is [rows, seq]: the rows by id and the       *)
(* AUTOINCREMENT counter.  Amounts are whole pesos.                         *)
(***************************************************************************)
MaxPaymentId == 2
MaxDay == 2

TenantArgs == 0..MaxTenantId    \* a tenant id, or an id of no tenant
Amounts == {8000, 12000}
Months == {"2025-11", "2025-12"}
AmountEntries == {"8000", "0", "-500", "abc"}
MonthEntries == {"2025-12", ""}
LedgerEntries == {"8000", "abc"}    \* an amount that parses, one that does not

Max(S) == CHOOSE x \in S : \A y \in S : y <= x

Min(S) == CHOOSE x \in S : \A y \in S : x <= y

\* ORDER BY id DESC
RECURSIVE OrderByIdDesc(_)
OrderByIdDesc(ids) ==
    IF ids = {} THEN << >> ELSE <<Max(ids)>> \o OrderByIdDesc(ids \ {Max(ids)})

\* float(text) of the amount entry: the number, or ValueError
float(text) ==
    CASE text = "8000" -> [ok |-> TRUE, value |-> 8000]
      [] text = "0"    -> [ok |-> TRUE, value |-> 0]
      [] text = "-500" -> [ok |-> TRUE, value |-> 0 - 500]
      [] OTHER         -> [ok |-> FALSE, value |-> 0]

\* add_payment keeping one row per tenant and month, the amounts added up.
p_add_payment_accumulates(pay, tenant_id, amount, payment_month, date) ==
    LET same == {p \in DOMAIN pay.rows : /\ pay.rows[p].tenant_id = tenant_id
                                         /\ pay.rows[p].payment_month = payment_month}
    IN  IF same = {}
        THEN [pay EXCEPT !.rows = @ @@ ((pay.seq + 1) :> [tenant_id |-> tenant_id,
                                                          amount |-> amount,
                                                          payment_date |-> date,
                                                          payment_month |-> payment_month]),
                         !.seq = @ + 1]
        ELSE [pay EXCEPT !.rows = [p \in DOMAIN @ |->
                                     IF p \in same
                                     THEN [@[p] EXCEPT !.amount = @ + amount]
                                     ELSE @[p]]]

\* Database.add_payment: INSERT INTO payments, payment_date = today, commit
p_add_payment(pay, tenant_id, amount, payment_month, date) ==
    [pay EXCEPT !.rows = @ @@ ((pay.seq + 1) :> [tenant_id |-> tenant_id, amount |-> amount,
                                                  payment_date |-> date,
                                                  payment_month |-> payment_month]),
                !.seq = @ + 1]

\* Database.get_payments: every payment (LEFT JOIN tenants), ORDER BY payments.id DESC
p_get_payments(pay) == OrderByIdDesc(DOMAIN pay.rows)

\* Database.get_payments_for_tenant: WHERE tenant_id = ? ORDER BY id DESC
p_get_payments_for_tenant(pay, tenant_id) ==
    OrderByIdDesc({p \in DOMAIN pay.rows : pay.rows[p].tenant_id = tenant_id})

\* SELECT SUM(amount): NULL over no rows
RECURSIVE sql_sum(_, _)
sql_sum(rows, ids) ==
    IF ids = {} THEN [null |-> TRUE, total |-> 0]
    ELSE LET p == Min(ids)
             rest == sql_sum(rows, ids \ {p})
         IN  [null |-> FALSE, total |-> rows[p].amount + rest.total]

\* Database.get_total_paid_by_tenant
p_get_total_paid_by_tenant(pay, tenant_id) ==
    LET row == sql_sum(pay.rows, {p \in DOMAIN pay.rows : pay.rows[p].tenant_id = tenant_id})
    IN  IF row.null THEN 0 ELSE row.total

\* RecordPaymentDialog.on_record of the tenant-portal variant; tenant_id is NULL when
\* the tenant combobox is empty.
on_record(pay, tenant_id, amount_text, month_text, date) ==
    IF tenant_id = NULL \/ amount_text = "" \/ month_text = "" THEN pay
    ELSE IF ~float(amount_text).ok THEN pay
    ELSE IF float(amount_text).value <= 0 THEN pay
    ELSE p_add_payment(pay, tenant_id, float(amount_text).value, month_text, date)

PortalPaymentsFrame ==
    UNCHANGED <<portal_db, units_tree, tenants_tree, portal_units_tree, dlg, vista_db, pages_db,
                vista_payments, pages_payments, today, program, login_page>>

Db_add_payment(tenant_id, amount, payment_month) ==
    /\ program = "portal"
    /\ portal_payments.seq < MaxPaymentId
    /\ portal_payments' = p_add_payment(portal_payments, tenant_id, amount, payment_month, today)
    /\ last' = Call("add_payment", tenant_id, FALSE)
    /\ PortalPaymentsFrame

\* open_record_payment_dialog: RecordPaymentDialog.on_record on the tenants listed by
\* get_tenants, then refresh_payments and refresh_tenants.
RecordPayment(i, tenant_id, amount_text, month_text) ==
    /\ program = "portal"
    /\ portal_payments.seq < MaxPaymentId
    /\ tenant_id \in DOMAIN portal_db.tenants \/ (tenant_id = NULL /\ DOMAIN portal_db.tenants = {})
    /\ portal_payments' = on_record(portal_payments, tenant_id, amount_text, month_text, today)
    /\ tenants_tree' = [tenants_tree EXCEPT ![i] = refresh_tenants(portal_db)]
    /\ last' = Call("on_record", tenant_id, portal_payments' = portal_payments)
    /\ UNCHANGED <<portal_db, units_tree, portal_units_tree, dlg, vista_db, pages_db,
                   vista_payments, pages_payments, today, program, login_page>>

\* The date changes.
Midnight ==
    /\ program # "all"
    /\ today < MaxDay
    /\ today' = today + 1
    /\ UNCHANGED <<portal_db, units_tree, tenants_tree, portal_units_tree, dlg, vista_db, pages_db,
                   last, portal_payments, vista_payments, pages_payments, program, login_page>>

\* VistaVerdeDB.add_payment: unit_id is (SELECT unit_id FROM tenants WHERE id = ?),
\* NULL when no tenant has the id; payment_date is date('now')
v_add_payment(pay, db, tenant_id, amount_paid, payment_month, date) ==
    LET unit_id == IF tenant_id \in DOMAIN db.tenants THEN db.tenants[tenant_id].unit_id ELSE NULL
    IN  [pay EXCEPT !.rows = @ @@ ((pay.seq + 1) :> [tenant_id |-> tenant_id, unit_id |-> unit_id,
                                                      amount_paid |-> amount_paid,
                                                      payment_date |-> date,
                                                      payment_month |-> payment_month]),
                    !.seq = @ + 1]

\* ORDER BY payment_date DESC over a scan of payments in rowid order: the sorter keeps
\* rows of equal payment_date in the order of the scan.
RECURSIVE OrderByDateDesc(_, _)
OrderByDateDesc(rows, ids) ==
    IF ids = {} THEN << >>
    ELSE LET latest == Max({rows[p].payment_date : p \in ids})
             first == Min({p \in ids : rows[p].payment_date = latest})
         IN  <<first>> \o OrderByDateDesc(rows, ids \ {first})

\* VistaVerdeDB.get_payments_by_month: payments JOIN tenants JOIN units
\* WHERE payment_month = ? ORDER BY payment_date DESC
v_get_payments_by_month(pay, db, year_month) ==
    OrderByDateDesc(pay.rows,
                    {p \in DOMAIN pay.rows :
                        /\ pay.rows[p].payment_month = year_month
                        /\ pay.rows[p].tenant_id \in DOMAIN db.tenants
                        /\ pay.rows[p].unit_id \in DOMAIN db.units})

V_add_payment(tenant_id, amount_paid, payment_month) ==
    /\ program = "vista"
    /\ vista_payments.seq < MaxPaymentId
    /\ vista_payments' = v_add_payment(vista_payments, vista_db, tenant_id, amount_paid,
                                       payment_month, today)
    /\ last' = Call("VistaVerdeDB.add_payment", tenant_id, FALSE)
    /\ UNCHANGED <<portalVars, vista_db, pages_db, portal_payments, pages_payments, today, program, login_page>>

\* RecordPaymentDialog.save of the pages variant; tenant_id is NULL when no tenant is
\* selected in the combobox.
RecordPaymentDialog_save(pay, tenant_id, amount_text, month_text, date) ==
    IF ~float(amount_text).ok THEN pay
    ELSE IF tenant_id = NULL \/ month_text = "" THEN pay
    ELSE [pay EXCEPT !.rows = @ @@ ((pay.seq + 1) :> [tenant_id |-> tenant_id,
                                                      amount |-> float(amount_text).value,
                                                      payment_date |-> date,
                                                      month_covered |-> month_text]),
                     !.seq = @ + 1]

\* PaymentsPage.record_payment + RecordPaymentDialog.save
G_RecordPayment(tenant_id, amount_text, month_text) ==
    /\ program = "pages"
    /\ pages_payments.seq < MaxPaymentId
    /\ tenant_id \in DOMAIN pages_db.tenants \cup {NULL}
    /\ pages_payments' = RecordPaymentDialog_save(pages_payments, tenant_id, amount_text,
                                                  month_text, today)
    /\ last' = Call("RecordPaymentDialog.save", tenant_id, pages_payments' = pages_payments)
    /\ UNCHANGED <<portalVars, vista_db, pages_db, portal_payments, vista_payments, today, program, login_page>>

Programs == {"portal", "vista", "pages"}

\* A run executes one of the three variants, on a new database file.
LedgerInit ==
    /\ PortalInit
    /\ vista_db = v_init_database
    /\ program \in Programs
    /\ pages_db \in IF program = "pages" THEN {create_database, init_db_fallback}
                                          ELSE {create_database}
    /\ last = NoCall
    /\ portal_payments = EmptyPayments
    /\ vista_payments = EmptyPayments
    /\ pages_payments = EmptyPayments
    /\ today = 1
    /\ login_page = LoginPage_init

\* The variant is driven through its handlers; VistaVerdeDB, which has none, through
\* its methods, called with the ids of rows that exist. Unit numbers play no part in
\* payments: VistaVerdeDB units are numbered in the order they are added.
LedgerNext ==
    \/ program = "portal" /\ \E n \in UnitNumbers : AddUnit(1, n)
    \/ program = "portal" /\ \E u \in UnitIds : RegisterTenant(1, u)
    \/ program = "portal" /\ \E t \in TenantIds : RemoveSelectedTenant(1, t)
    \/ program = "portal" /\ \E u \in UnitIds : DeleteSelectedUnit(1, u)
    \/ \E t \in TenantArgs, a \in LedgerEntries, m \in MonthEntries : RecordPayment(1, t, a, m)
    \/ program = "vista" /\ \E n \in UnitNumbers : n = vista_db.seq_units + 1 /\ V_add_unit(n)
    \/ program = "vista" /\ \E u \in DOMAIN vista_db.units : V_delete_unit(u)
    \/ program = "vista" /\ \E u \in DOMAIN vista_db.units : V_add_tenant(u)
    \/ program = "vista" /\ \E t \in DOMAIN vista_db.tenants : V_end_tenancy(t)
    \/ \E t \in DOMAIN vista_db.tenants : V_add_payment(t, 8000, "2025-12")
    \/ program = "pages" /\ \E n \in UnitNumbers : G_AddUnit(n)
    \/ program = "pages" /\ \E u \in UnitIds : G_AddTenant(u)
    \/ program = "pages" /\ \E t \in TenantIds : G_DeleteTenant(t)
    \/ program = "pages" /\ \E u \in UnitIds : G_DeleteUnit(u)
    \/ \E t \in TenantArgs, a \in LedgerEntries, m \in MonthEntries : G_RecordPayment(t, a, m)

SpecLedger == LedgerInit /\ [][LedgerNext]_vars

\* class Database or class VistaVerdeDB called directly, with arbitrary arguments.
PaymentApiInit ==
    /\ PortalInit
    /\ vista_db = v_init_database
    /\ pages_db = create_database
    /\ program \in {"portal", "vista"}
    /\ last = NoCall
    /\ portal_payments = EmptyPayments
    /\ vista_payments = EmptyPayments
    /\ pages_payments = EmptyPayments
    /\ today = 1
    /\ login_page = LoginPage_init

PaymentApiNext ==
    \/ program = "portal" /\ \E u \in UnitArgs : Db_add_tenant(u)
    \/ program = "portal" /\ \E t \in TenantIds : Db_remove_tenant(t)
    \/ \E t \in TenantArgs, a \in Amounts : Db_add_payment(t, a, "2025-12")
    \/ program = "vista" /\ \E n \in UnitNumbers : V_add_unit(n)
    \/ program = "vista" /\ \E u \in UnitIds : V_delete_unit(u)
    \/ program = "vista" /\ \E u \in UnitArgs : V_add_tenant(u)
    \/ program = "vista" /\ \E t \in TenantIds : V_end_tenancy(t)
    \/ \E t \in TenantArgs, m \in Months : V_add_payment(t, 8000, m)
    \/ Midnight

SpecPaymentApi == PaymentApiInit /\ [][PaymentApiNext]_vars

\* The two record-payment dialogs with every kind of entry.
DialogsInit ==
    /\ PortalInit
    /\ vista_db = v_init_database
    /\ pages_db = create_database
    /\ program \in {"portal", "pages"}
    /\ last = NoCall
    /\ portal_payments = EmptyPayments
    /\ vista_payments = EmptyPayments
    /\ pages_payments = EmptyPayments
    /\ today = 1
    /\ login_page = LoginPage_init

DialogsNext ==
    \/ program = "portal" /\ \E n \in UnitNumbers : AddUnit(1, n)
    \/ program = "portal" /\ \E u \in UnitIds : RegisterTenant(1, u)
    \/ \E t \in TenantArgs, a \in AmountEntries, m \in MonthEntries : RecordPayment(1, t, a, m)
    \/ program = "pages" /\ \E n \in UnitNumbers : G_AddUnit(n)
    \/ program = "pages" /\ \E u \in UnitIds : G_AddTenant(u)
    \/ \E t \in TenantArgs, a \in AmountEntries, m \in MonthEntries : G_RecordPayment(t, a, m)

SpecDialogs == DialogsInit /\ [][DialogsNext]_vars

(***************************************************************************)
(* Properties                                                              *)
(***************************************************************************)
TenantsOf(db, unit_id) == {t \in DOMAIN db.tenants : db.tenants[t].unit_id = unit_id}

\* C1: tenant-portal variant, one ApartmentApp driving class Database: after every
\* sequence of completed add-unit, admin registration, portal registration, tenant
\* removal and unit deletion handlers, an existing unit has is_occupied = 1 exactly
\* when at least one tenant row references it.
C1_PortalOccupancyInvariant ==
    \A u \in DOMAIN portal_db.units :
        (portal_db.units[u].is_occupied = 1) <=> (TenantsOf(portal_db, u) # {})

\* A unit is occupied by a tenant while another unit has been freed by a removal.
C1_OccupiedAndFreedWitness ==
    /\ last.op = "remove_selected_tenant"
    /\ \E u \in DOMAIN portal_db.units :
          portal_db.units[u].is_occupied = 1 /\ TenantsOf(portal_db, u) # {}
    /\ \E u \in DOMAIN portal_db.units :
          portal_db.units[u].is_occupied = 0 /\ TenantsOf(portal_db, u) = {}

\* C2: soft-delete variant: after every sequence of add_unit, add_tenant, end_tenancy
\* and delete_unit calls with arbitrary arguments, an existing unit has is_occupied = 1
\* exactly when some tenant with is_active = 1 references it.
C2_VistaOccupancyInvariant ==
    \A u \in DOMAIN vista_db.units :
        (vista_db.units[u].is_occupied = 1)
            <=> (\E t \in TenantsOf(vista_db, u) : vista_db.tenants[t].is_active = 1)

\* C3: trigger variant (schema of create_database): after every sequence of dialog and
\* page handlers and of tenant INSERT, DELETE and UPDATE OF unit_id statements, an
\* existing unit has is_occupied = 1 exactly when some tenant row references it.
C3_TriggerOccupancyInvariant ==
    pages_db.triggers =>
        \A u \in DOMAIN pages_db.units :
            (pages_db.units[u].is_occupied = 1) <=> (TenantsOf(pages_db, u) # {})

\* C4: VistaVerdeDB.add_tenant called with the id of a unit whose is_occupied is 1
\* creates no tenant row and leaves the unit and its tenant unchanged.
C4_AddTenantRejectsOccupiedUnit ==
    [][(/\ last'.op = "VistaVerdeDB.add_tenant"
        /\ last'.arg \in DOMAIN vista_db.units
        /\ vista_db.units[last'.arg].is_occupied = 1)
       => vista_db' = vista_db]_vars

\* C5: a tenant-assignment handler that runs on a unit which has become occupied since
\* its dialog listed the unit creates no tenant row and does not modify the unit.
C5_SaveRechecksOccupancy ==
    [][\A i \in Inst :
        (/\ dlg[i].kind = "RegisterTenantDialog"
         /\ dlg'[i].kind = "on_register"
         /\ dlg'[i].unit \in DOMAIN portal_db.units
         /\ portal_db.units[dlg'[i].unit].is_occupied = 1)
        => (portal_db'.tenants = portal_db.tenants /\ portal_db'.units = portal_db.units)]_vars

\* C6: of the portal registration attempts on one unit, under every interleaving of
\* their get_unit, add_tenant and set_unit_occupied steps, at most one creates a
\* tenant row for the unit.
C6_AtMostOnePortalTenantPerUnit ==
    \A u \in DOMAIN portal_db.units : Cardinality(TenantsOf(portal_db, u)) <= 1

\* C7: tenant-portal variant: no committed database state has a tenant row that
\* references a unit whose is_occupied is 0.
C7_NoCommittedTenantOnFreeUnit ==
    \A t \in DOMAIN portal_db.tenants :
        portal_db.tenants[t].unit_id \in DOMAIN portal_db.units
            => portal_db.units[portal_db.tenants[t].unit_id].is_occupied = 1

\* C8: a tenant assignment whose UPDATE of the unit fails after the tenant row was
\* inserted (AddTenantDialog.save, VistaVerdeDB.add_tenant) leaves the tenants and
\* units tables exactly as they were before the call.
C8_FailedAssignmentRollsBack ==
    [][(last'.failed /\ last'.op \in {"AddTenantDialog.save", "VistaVerdeDB.add_tenant"})
       => (pages_db' = pages_db /\ vista_db' = vista_db)]_vars

\* A failed AddTenantDialog.save on a trigger-schema file that holds tenants, for a
\* unit that is still free afterwards.
C8_FailedSaveWitness ==
    /\ last.failed
    /\ last.op = "AddTenantDialog.save"
    /\ pages_db.triggers
    /\ pages_db.tenants # NoRows
    /\ pages_db.units[last.arg].is_occupied = 0
    /\ vista_db.tenants # NoRows

\* C9: Database.remove_tenant(tenant_id) deletes exactly that tenant row and sets
\* is_occupied = 0 on exactly the unit the tenant referenced; every other unit and
\* tenant is unchanged, and no unit is modified when the tenant has no unit reference
\* or does not exist.
C9_RemoveTenantFrame ==
    [][last'.op = "remove_tenant" =>
        LET t == last'.arg
            u == IF t \in DOMAIN portal_db.tenants THEN portal_db.tenants[t].unit_id ELSE NULL
        IN  /\ DOMAIN portal_db'.tenants = DOMAIN portal_db.tenants \ {t}
            /\ \A x \in DOMAIN portal_db'.tenants : portal_db'.tenants[x] = portal_db.tenants[x]
            /\ DOMAIN portal_db'.units = DOMAIN portal_db.units
            /\ \A x \in DOMAIN portal_db.units :
                  portal_db'.units[x] = IF x = u
                                        THEN [portal_db.units[x] EXCEPT !.is_occupied = 0]
                                        ELSE portal_db.units[x]]_vars

\* remove_tenant has removed a tenant and freed its unit while another tenant and the
\* occupied unit it references remain.
C9_RemovedOneOfSeveralWitness ==
    /\ last.op = "remove_tenant"
    /\ last.arg \notin DOMAIN portal_db.tenants
    /\ last.arg <= portal_db.seq_tenants
    /\ \E t \in DOMAIN portal_db.tenants :
          /\ portal_db.tenants[t].unit_id \in DOMAIN portal_db.units
          /\ portal_db.units[portal_db.tenants[t].unit_id].is_occupied = 1
    /\ \E u \in DOMAIN portal_db.units : portal_db.units[u].is_occupied = 0

\* C10: pages variant: TenantsPage.delete_tenant sets the is_occupied of the unit the
\* tenant referenced to 0, on a file made by create_database and on one made by the
\* fallback schema of init_db.
C10_DeleteTenantFreesUnit ==
    [][(/\ last'.op = "TenantsPage.delete_tenant"
        /\ last'.arg \in DOMAIN pages_db.tenants
        /\ pages_db.tenants[last'.arg].unit_id \in DOMAIN pages_db.units)
       => pages_db'.units[pages_db.tenants[last'.arg].unit_id].is_occupied = 0]_vars

(***************************************************************************)
(* Properties of the payment ledgers                                       *)
(***************************************************************************)

\* C11: deleting a tenant (ApartmentApp.remove_selected_tenant calling
\* Database.remove_tenant, or TenantsPage.delete_tenant) leaves no payment row of that
\* variant's payments table that references the deleted tenant.
C11_DeleteTenantRemovesItsPayments ==
    [][/\ (last'.op = "remove_selected_tenant" /\ last'.failed = FALSE)
            => \A p \in DOMAIN portal_payments'.rows :
                  portal_payments'.rows[p].tenant_id # last'.arg
       /\ last'.op = "TenantsPage.delete_tenant"
            => \A p \in DOMAIN pages_payments'.rows :
                  pages_payments'.rows[p].tenant_id # last'.arg]_vars

\* C12: ApartmentApp.delete_selected_unit never deletes a unit that a tenant row
\* references: on such a unit it leaves units and tenants as they were; on a unit no
\* tenant references it deletes that unit row and nothing else.
C12_DeleteSelectedUnitRefusesReferenced ==
    [][last'.op = "delete_selected_unit"
       => IF \E t \in DOMAIN portal_db.tenants : portal_db.tenants[t].unit_id = last'.arg
          THEN portal_db' = portal_db
          ELSE /\ DOMAIN portal_db'.units = DOMAIN portal_db.units \ {last'.arg}
               /\ \A u \in DOMAIN portal_db'.units : portal_db'.units[u] = portal_db.units[u]
               /\ portal_db'.tenants = portal_db.tenants]_vars

\* The only unit ever added had a tenant, the tenant was removed with
\* remove_selected_tenant, and delete_selected_unit has then deleted the unit.
C12_DeletedAfterTenantRemovedWitness ==
    /\ last.op = "delete_selected_unit"
    /\ portal_db.seq_units = 1
    /\ portal_db.seq_tenants >= 1
    /\ DOMAIN portal_db.units = {}
    /\ DOMAIN portal_db.tenants = {}

\* C13: VistaVerdeDB.delete_unit and UnitsPage.delete_unit, called for a unit with
\* is_occupied = 1 that a tenant (an active one, for VistaVerdeDB) references, do not
\* delete the unit and leave units and tenants unchanged.
C13_DeleteUnitRefusesOccupied ==
    [][/\ (/\ last'.op = "VistaVerdeDB.delete_unit"
           /\ last'.arg \in DOMAIN vista_db.units
           /\ vista_db.units[last'.arg].is_occupied = 1
           /\ \E t \in DOMAIN vista_db.tenants :
                 /\ vista_db.tenants[t].unit_id = last'.arg
                 /\ vista_db.tenants[t].is_active = 1)
          => vista_db' = vista_db
       /\ (/\ last'.op = "UnitsPage.delete_unit"
           /\ last'.arg \in DOMAIN pages_db.units
           /\ pages_db.units[last'.arg].is_occupied = 1
           /\ \E t \in DOMAIN pages_db.tenants : pages_db.tenants[t].unit_id = last'.arg)
          => pages_db' = pages_db]_vars

\* C14: when VistaVerdeDB.delete_unit or UnitsPage.delete_unit deletes a unit, no
\* tenant row references the deleted unit id afterwards (their unit_id has become NULL).
C14_DeleteUnitNullsTenantReferences ==
    [][/\ (last'.op = "VistaVerdeDB.delete_unit" /\ last'.arg \in DOMAIN vista_db.units)
          => \A t \in DOMAIN vista_db'.tenants : vista_db'.tenants[t].unit_id # last'.arg
       /\ (last'.op = "UnitsPage.delete_unit" /\ last'.arg \in DOMAIN pages_db.units)
          => \A t \in DOMAIN pages_db'.tenants : pages_db'.tenants[t].unit_id # last'.arg]_vars

\* C15: Database.add_payment and VistaVerdeDB.add_payment, called with a tenant_id that
\* is the id of no tenant row, insert no payment row and do not report success.
C15_AddPaymentRejectsUnknownTenant ==
    [][/\ (last'.op = "add_payment" /\ last'.arg \notin DOMAIN portal_db.tenants)
          => (portal_payments' = portal_payments /\ last'.failed)
       /\ (last'.op = "VistaVerdeDB.add_payment" /\ last'.arg \notin DOMAIN vista_db.tenants)
          => (vista_payments' = vista_payments /\ last'.failed)]_vars

\* C16: every payment row inserted by a record-payment dialog (RecordPaymentDialog.save
\* of the pages variant, RecordPaymentDialog.on_record of the tenant-portal variant) has
\* a positive amount, a non-empty period label and a tenant.
C16_DialogsInsertOnlyValidPayments ==
    /\ \A p \in DOMAIN pages_payments.rows :
          /\ pages_payments.rows[p].amount > 0
          /\ pages_payments.rows[p].month_covered # ""
          /\ pages_payments.rows[p].tenant_id # NULL
    /\ \A p \in DOMAIN portal_payments.rows :
          /\ portal_payments.rows[p].amount > 0
          /\ portal_payments.rows[p].payment_month # ""
          /\ portal_payments.rows[p].tenant_id # NULL

\* The amounts of the payment rows ids, added up.
RECURSIVE SumAmounts(_, _)
SumAmounts(rows, ids) ==
    IF ids = {} THEN 0
    ELSE LET p == CHOOSE x \in ids : TRUE
         IN  rows[p].amount + SumAmounts(rows, ids \ {p})

\* C17: Database.get_total_paid_by_tenant(t) is the sum of the amounts of the payment
\* rows whose tenant_id is t, and is zero when t has no payments or is the id of no
\* tenant.
C17_TotalPaidByTenant ==
    \A t \in TenantArgs :
        /\ p_get_total_paid_by_tenant(portal_payments, t)
              = SumAmounts(portal_payments.rows,
                           {p \in DOMAIN portal_payments.rows : portal_payments.rows[p].tenant_id = t})
        /\ t \notin DOMAIN portal_db.tenants
              => p_get_total_paid_by_tenant(portal_payments, t) = 0

\* C18: payments are append-only. In every step of every variant, each payment row
\* that exists is still there afterwards with the same tenant_id, amount, payment
\* date and period label, unless the step is the deletion of the tenant that owns
\* the row; unit operations, payment operations and end_tenancy change no row.
C18_PaymentsAppendOnly ==
    [][/\ \A p \in DOMAIN portal_payments.rows :
             \/ /\ p \in DOMAIN portal_payments'.rows
                /\ portal_payments'.rows[p] = portal_payments.rows[p]
             \/ /\ p \notin DOMAIN portal_payments'.rows
                /\ last'.op = "remove_selected_tenant"
                /\ last'.arg = portal_payments.rows[p].tenant_id
       /\ \A p \in DOMAIN pages_payments.rows :
             \/ /\ p \in DOMAIN pages_payments'.rows
                /\ pages_payments'.rows[p] = pages_payments.rows[p]
             \/ /\ p \notin DOMAIN pages_payments'.rows
                /\ last'.op = "TenantsPage.delete_tenant"
                /\ last'.arg = pages_payments.rows[p].tenant_id
       /\ \A p \in DOMAIN vista_payments.rows :
             /\ p \in DOMAIN vista_payments'.rows
             /\ vista_payments'.rows[p] = vista_payments.rows[p]]_vars

\* Two payments have been recorded for tenants of the tenant-portal variant, and a
\* tenant has then been removed while a payment of that tenant is in the table.
C18_PaymentOutlivesOperationsWitness ==
    /\ last.op = "remove_selected_tenant"
    /\ DOMAIN portal_payments.rows = {1, 2}
    /\ \E p \in DOMAIN portal_payments.rows : portal_payments.rows[p].tenant_id = last.arg
    /\ last.arg \notin DOMAIN portal_db.tenants

\* The ids that occur in a listing.
Listed(listing) == {listing[i] : i \in DOMAIN listing}

\* C19: VistaVerdeDB.get_payments_by_month(m) returns exactly the payments recorded
\* with payment_month = m, each once, and no payment of another month. Stated for the
\* payments of tenants that exist, whatever has happened to their units since.
C19_PaymentsByMonthComplete ==
    \A m \in Months :
       LET listing == v_get_payments_by_month(vista_payments, vista_db, m)
           recorded == {p \in DOMAIN vista_payments.rows :
                           /\ vista_payments.rows[p].payment_month = m
                           /\ vista_payments.rows[p].tenant_id \in DOMAIN vista_db.tenants}
       IN  /\ Listed(listing) = recorded
           /\ Len(listing) = Cardinality(recorded)

\* A listing in which a payment recorded later comes before one recorded earlier.
LaterFirst(listing) ==
    \A i, j \in DOMAIN listing : i < j => listing[i] > listing[j]

\* C20: payment listings are in reverse insertion order, also for payments recorded
\* on the same date: VistaVerdeDB.get_payments_by_month, Database.get_payments and
\* Database.get_payments_for_tenant.
C20_ListingsInReverseInsertionOrder ==
    /\ \A m \in Months : LaterFirst(v_get_payments_by_month(vista_payments, vista_db, m))
    /\ LaterFirst(p_get_payments(portal_payments))
    /\ \A t \in TenantArgs : LaterFirst(p_get_payments_for_tenant(portal_payments, t))

(***************************************************************************)
(* Properties of unit numbers, reassignment, frames and reads              *)
(***************************************************************************)
\* Units are added and deleted through VistaVerdeDB and through the Units page.
UnitsNext ==
    \/ \E n \in UnitNumbers : V_add_unit(n)
    \/ \E u \in UnitIds : V_delete_unit(u)
    \/ \E n \in UnitNumbers : G_AddUnit(n)
    \/ \E u \in UnitIds : G_DeleteUnit(u)

SpecUnits == PagesInit /\ [][UnitsNext]_vars

\* What adding a unit numbered n does to a units table: nothing when n is the number
\* of an existing unit, else exactly one new, unoccupied unit numbered n.
UnitAdded(before, after, n, rejected) ==
    IF \E u \in DOMAIN before : before[u].unit_number = n
    THEN after = before /\ rejected
    ELSE /\ ~rejected
         /\ \E new \in DOMAIN after \ DOMAIN before :
               /\ DOMAIN after = DOMAIN before \cup {new}
               /\ after[new] = [unit_number |-> n, is_occupied |-> 0]
         /\ \A u \in DOMAIN before : after[u] = before[u]

UniqueNumbers(units) ==
    \A u1, u2 \in DOMAIN units : units[u1].unit_number = units[u2].unit_number => u1 = u2

C22_ReassignmentChecksTargetUnit ==
    [][(/\ last'.op = "UPDATE tenants SET unit_id"
        /\ last'.arg \in DOMAIN pages_db.tenants)
       => LET t == last'.arg
              A == pages_db.tenants[t].unit_id
              B == pages_db'.tenants[t].unit_id
          IN  B # A =>
                /\ B \in DOMAIN pages_db.units
                      => \A x \in DOMAIN pages_db.tenants \ {t} : pages_db.tenants[x].unit_id # B
                /\ A \in DOMAIN pages_db'.units => pages_db'.units[A].is_occupied = 0
                /\ B \in DOMAIN pages_db'.units => pages_db'.units[B].is_occupied = 1]_vars

\* C23: VistaVerdeDB.add_tenant called with a unit id that matches no unit creates
\* no tenant row.
C23_AddTenantRejectsUnknownUnit ==
    [][(/\ last'.op = "VistaVerdeDB.add_tenant"
        /\ last'.arg # NULL
        /\ last'.arg \notin DOMAIN vista_db.units)
       => vista_db'.tenants = vista_db.tenants]_vars

\* The handlers and methods that assign, remove or deactivate a tenant.
TenantOps ==
    {"on_register", "on_submit", "remove_selected_tenant",
     "VistaVerdeDB.add_tenant", "VistaVerdeDB.end_tenancy",
     "AddTenantDialog.save", "TenantsPage.delete_tenant"}

\* Every unit of both tables has the same is_occupied in both.
FlagsKept(before, after) ==
    \A u \in DOMAIN before \cap DOMAIN after : after[u].is_occupied = before[u].is_occupied

\* Every unit that is only in the second table has is_occupied = 0.
NewUnitsFree(before, after) ==
    \A u \in DOMAIN after \ DOMAIN before : after[u].is_occupied = 0

Db_get_total_paid_by_tenant_and_clear(tenant_id) ==
    /\ program = "portal"
    /\ portal_payments' =
          [portal_payments EXCEPT !.rows =
              [p \in {x \in DOMAIN @ : @[x].tenant_id # tenant_id} |-> @[p]]]
    /\ last' = [op |-> "get_total_paid_by_tenant", arg |-> tenant_id, failed |-> FALSE,
                result |-> p_get_total_paid_by_tenant(portal_payments, tenant_id),
                calls |-> IF last.op = "get_total_paid_by_tenant" /\ last.arg = tenant_id
                          THEN 2 ELSE 1]
    /\ UNCHANGED <<portal_db, units_tree, tenants_tree, portal_units_tree, dlg, vista_db,
                   pages_db, vista_payments, pages_payments, today, program, login_page>>

\* Database.get_total_paid_by_tenant(tenant_id) called on its own: a SELECT, no commit.
\* The caller keeps the value returned and whether the call repeats the previous one.
Db_get_total_paid_by_tenant(tenant_id) ==
    /\ program = "portal"
    /\ last' = [op |-> "get_total_paid_by_tenant", arg |-> tenant_id, failed |-> FALSE,
                result |-> p_get_total_paid_by_tenant(portal_payments, tenant_id),
                calls |-> IF last.op = "get_total_paid_by_tenant" /\ last.arg = tenant_id
                          THEN 2 ELSE 1]
    /\ UNCHANGED <<portalVars, vista_db, pages_db, payVars, login_page>>

ReadsInit == PaymentApiInit /\ program = "portal"

\* class Database called directly: tenants, payments and the total of a tenant.
ReadsNext ==
    \/ \E u \in UnitArgs : Db_add_tenant(u)
    \/ \E t \in TenantIds : Db_remove_tenant(t)
    \/ \E t \in TenantArgs, a \in Amounts : Db_add_payment(t, a, "2025-12")
    \/ \E t \in TenantArgs : Db_get_total_paid_by_tenant(t)

SpecReads == ReadsInit /\ [][ReadsNext]_vars

UsernameEntries ==
    {admin, <<" ">> \o admin, admin \o <<" ">>, <<"A", "d", "m", "i", "n">>,
     <<"A", "D", "M", "I", "N">>, <<"u", "s", "e", "r">>, << >>}

PasswordEntries ==
    {Admin123, <<" ">> \o Admin123 \o <<"\t">>, Admin123 \o <<" ">>,
     <<"a", "d", "m", "i", "n", "1", "2", "3">>, <<"A", "D", "M", "I", "N", "1", "2", "3">>,
     Admin123 \o <<"4">>, <<"p", "a", "s", "s">>, << >>}

LoginOthersUnchanged ==
    UNCHANGED <<portalVars, vista_db, pages_db, payVars>>

\* The user types into username_entry.
TypeUsername(text) ==
    /\ login_page.open
    /\ login_page' = [login_page EXCEPT !.username_entry = text]
    /\ last' = Call("username_entry", NULL, FALSE)
    /\ LoginOthersUnchanged

\* The user types into password_entry.
TypePassword(text) ==
    /\ login_page.open
    /\ login_page' = [login_page EXCEPT !.password_entry = text]
    /\ last' = Call("password_entry", NULL, FALSE)
    /\ LoginOthersUnchanged

\* The LOGIN button, or Return in password_entry.
Login ==
    /\ login_page.open
    /\ login_page' = login(login_page)
    /\ last' = Call("login", NULL, login_page'.open)
    /\ LoginOthersUnchanged

LoginNext ==
    \/ \E text \in UsernameEntries : TypeUsername(text)
    \/ \E text \in PasswordEntries : TypePassword(text)
    \/ Login

SpecLogin == Init /\ [][LoginNext]_vars

\* text is core between leading and trailing whitespace.
Padded(text, core) ==
    \E i, j \in 0..Len(text) :
        /\ i + Len(core) + j = Len(text)
        /\ SubSeq(text, i + 1, i + Len(core)) = core
        /\ \A k \in 1..i : text[k] \in Whitespace
        /\ \A k \in (Len(text) - j + 1)..Len(text) : text[k] \in Whitespace

\* C26 as stated: LoginPage.login calls on_success exactly when username_entry holds
\* exactly "admin" and password_entry exactly "Admin123"; otherwise on_success is not
\* called and the window stays open.
C26_LoginRequiresExactEntries ==
    [][last'.op = "login"
       => /\ (login_page'.on_success = login_page.on_success + 1)
                <=> (login_page.username_entry = admin /\ login_page.password_entry = Admin123)
          /\ login_page'.on_success = login_page.on_success => login_page'.open]_vars

\* C26, amended: LoginPage.login calls on_success, once, exactly when username_entry
\* holds "admin" and password_entry holds "Admin123" (case-sensitive), each possibly
\* between leading and trailing whitespace; otherwise on_success is not called and the
\* window stays open.
C26_LoginComparesStrippedEntries ==
    [][last'.op = "login"
       => IF /\ Padded(login_page.username_entry, admin)
             /\ Padded(login_page.password_entry, Admin123)
          THEN login_page'.on_success = login_page.on_success + 1 /\ ~login_page'.open
          ELSE login_page'.on_success = login_page.on_success /\ login_page'.open]_vars

\* on_success has been called for entries that are not exactly "admin" / "Admin123".
C26_PaddedLoginWitness ==
    /\ last.op = "login"
    /\ login_page.on_success = 1
    /\ login_page.username_entry # admin
    /\ login_page.password_entry # Admin123

(***************************************************************************)
(* Soft-delete variant: repeated end_tenancy, get_summary, get_all_units   *)
(***************************************************************************)
\* C27: VistaVerdeDB.end_tenancy called for a tenant that is already inactive changes
\* no unit.
C27_RepeatedEndTenancyChangesNoUnit ==
    [][(/\ last'.op = "VistaVerdeDB.end_tenancy"
        /\ last'.arg \in DOMAIN vista_db.tenants
        /\ vista_db.tenants[last'.arg].is_active = 0)
       => vista_db'.units = vista_db.units]_vars

\* VistaVerdeDB.get_summary: the three COUNT(*) queries and the difference
v_get_summary(db) ==
    LET total_units == Cardinality(DOMAIN db.units)
        occupied == Cardinality({u \in DOMAIN db.units : db.units[u].is_occupied = 1})
        active_tenants == Cardinality({t \in DOMAIN db.tenants : db.tenants[t].is_active = 1})
    IN  [total_units |-> total_units, occupied_units |-> occupied,
         vacant_units |-> total_units - occupied, active_tenants |-> active_tenants]

\* C28: get_summary reports vacant_units + occupied_units = total_units with
\* vacant_units >= 0, and occupied_units is the number of active tenants that hold a
\* unit.
C28_SummaryCountsAgree ==
    LET summary == v_get_summary(vista_db)
    IN  /\ summary.vacant_units + summary.occupied_units = summary.total_units
        /\ summary.vacant_units >= 0
        /\ summary.occupied_units =
              Cardinality({t \in DOMAIN vista_db.tenants :
                              /\ vista_db.tenants[t].is_active = 1
                              /\ vista_db.tenants[t].unit_id \in DOMAIN vista_db.units})

\* VistaVerdeDB.get_all_units: units LEFT JOIN tenants ON u.id = t.unit_id AND
\* t.is_active = 1; a row per matching tenant, or one row with no tenant. tenant_name is
\* given as the tenant's id.
v_get_all_units(db) ==
    LET matches(u) == {t \in DOMAIN db.tenants :
                          db.tenants[t].unit_id = u /\ db.tenants[t].is_active = 1}
    IN  UNION {IF matches(u) = {}
               THEN {[id |-> u, is_occupied |-> db.units[u].is_occupied, tenant_name |-> NULL]}
               ELSE {[id |-> u, is_occupied |-> db.units[u].is_occupied, tenant_name |-> t] :
                       t \in matches(u)}
               : u \in DOMAIN db.units}

\* C29: get_all_units returns exactly one row per existing unit; its tenant_name is
\* that of the unit's active tenant when is_occupied = 1 and NULL when is_occupied = 0.
C29_AllUnitsOneRowPerUnit ==
    LET rows == v_get_all_units(vista_db)
    IN  /\ \A u \in DOMAIN vista_db.units : Cardinality({r \in rows : r.id = u}) = 1
        /\ \A r \in rows : (r.is_occupied = 0) <=> (r.tenant_name = NULL)

\* C30: tenant-portal variant: immediately after a tenant is registered,
\* Database.get_payments_for_tenant returns no rows and get_total_paid_by_tenant
\* returns 0 for the new tenant's id.
C30_NewTenantHasNoPayments ==
    [][(last'.op \in {"add_tenant", "on_register"} /\ portal_db'.seq_tenants > portal_db.seq_tenants)
       => /\ p_get_payments_for_tenant(portal_payments', portal_db'.seq_tenants) = << >>
          /\ p_get_total_paid_by_tenant(portal_payments', portal_db'.seq_tenants) = 0]_vars

====
